---- MODULE Spec2Model ----
(***************************************************************************)
(* Auto-sizing field widgets of openeducat_core (InlineCharField,          *)
(* AutoMany2XAutocomplete, InlineMany2OneField) and the list controller of *)
(* openeducat_fees (PageListController), as state machines driven by the   *)
(* host framework's events.                                                *)
(*                                                                         *)
(* The DOM is modelled by what the widgets read and write of it: the sizer *)
(* <span> elements appended to document.body (elems), the widget's <input> *)
(* (input) and the font the host theme gives the inputs (themeFont).       *)
(*                                                                         *)
(* The host is not part of the repository.  Its lifecycle dispatch is left *)
(* open (runtime): with "hooks" it runs at unmount the callbacks given to  *)
(* onWillUnmount, the convention of the onMounted the widgets import from  *)
(* @odoo/owl and register with; with "methods" it calls the component's    *)
(* willUnmount() method by name.                                           *)
(***************************************************************************)
EXTENDS Integers, Sequences, FiniteSets, TLC

\* ------------------------------------------------------------- bounds
MaxElems == 2   \* sizer elements ever created (caps document.createElement)
NViews == 3     \* list views on screen
MaxClicks == 4  \* clicks on a create button

\* ---------------------------------------------------- program constants
CharValuePad == 2     \* field_inline_char.js:42, inline_many2one.js:92
CharSizerPad == 10    \* field_inline_char.js:46, inline_many2one.js:96
AutoSizerPad == 20    \* inline_many2one.js:50
NoSizer == 0          \* this._sizer undefined (never set) or null

FeesAction == "openeducat_fees.action_select_fees_term_type"
FeesViewKey == "fees_wizard_list"
StockViewKey == "list"

\* ------------------------------------------------------ the environment
\* the form view under study: one inline_char field and one inline_many2one
\* field, which is a field component and its child autocomplete component
CharWidgets == {<<"char", 1>>}
ManyWidgets == {<<"many", 1>>}
Widgets == CharWidgets \cup ManyWidgets
\* the component instances
CharComps == CharWidgets
FieldComps == {<<"m2o", w[2]>> : w \in ManyWidgets}
AutoComps == {<<"ac", w[2]>> : w \in ManyWidgets}
Comps == CharComps \cup FieldComps \cup AutoComps
WidgetOf(c) == IF c[1] = "char" THEN c ELSE <<"many", c[2]>>
FieldOf(w) == <<"m2o", w[2]>>
AutoOf(w) == <<"ac", w[2]>>

BodyFont == "body"
InputFonts == {"f1", "f2"}
Values == {"", "ab"}
DisplayNames == {"abcde"}
Placeholders == {"", "abc"}

\* px per character of a font; the layout engine's text measurement
CharPx(font) == CASE font = "body" -> 5 [] font = "f1" -> 7 [] font = "f2" -> 9
TextWidth(text, font) == Len(text) * CharPx(font)

VARIABLES
    runtime,      \* how the host dispatches lifecycle: "hooks" or "methods"
    status,       \* widget -> "new" | "mounted" | "unmounted"
    sizer,        \* component -> this._sizer (an index of elems, or NoSizer)
    elems,        \* the sizer elements created so far, in creation order
    input,        \* widget -> its <input>: present, value, width (style.width)
    placeholder,  \* the placeholder attribute the view gives the inputs
    themeFont,    \* getComputedStyle(input).font
    ev,           \* the event handled last and how its handler ended
    requests,     \* actionService.doAction requests, in order
    stockCreates, \* list view -> records its stock create has made
    clicks,       \* list view -> clicks on its create button
    returned      \* list view -> what its last onClickCreate returned

vars == <<runtime, status, sizer, elems, input, placeholder, themeFont, ev,
          requests, stockCreates, clicks, returned>>

widgetVars == <<runtime, status, sizer, elems, input, placeholder, themeFont>>
listVars == <<requests, stockCreates, clicks, returned>>

\* the part of the state the widget methods read and write
Heap == [sizer |-> sizer, elems |-> elems, input |-> input]

Event(op, c, out, arg) == [op |-> op, comp |-> c, out |-> out, arg |-> arg]

\* offsetWidth of a sizer element: laid out only while in the document
OffsetWidth(e) == IF e.attached THEN TextWidth(e.text, e.font) ELSE 0

\* scrollWidth of an input whose width was just set to 1px: its content
ScrollWidth(value, font) == TextWidth(value, font)

\* ------------------------------------------------ InlineCharField methods
\* document.createElement("span") styled with the body's font and appended
\* to document.body
NewSizer(c) == [creator |-> c, attached |-> TRUE, text |-> "", font |-> BodyFont]

InlineCharField_createSizer(h, c) ==
    IF h.sizer[c] = NoSizer
    THEN [h EXCEPT !.elems = Append(@, NewSizer(c)),
                   !.sizer[c] = Len(h.elems) + 1]
    ELSE h

\* the result of a method that can return early or throw a TypeError
Done(h, out) == [h |-> h, out |-> out]

\* faulty variant: the sizer keeps the font it was created with
InlineCharField_resizeInput_staleFont(h, c, font) ==
    LET w == WidgetOf(c)
        inp == h.input[w]
        s == h.sizer[c]
    IN  IF ~inp.present THEN Done(h, "noop")
        ELSE IF inp.value # ""
        THEN Done([h EXCEPT !.input[w].width =
                                ScrollWidth(inp.value, font) + CharValuePad],
                  "ok")
        ELSE IF s = NoSizer THEN Done(h, "error")
        ELSE LET h1 == [h EXCEPT !.elems[s].text = inp.placeholder]
             IN  Done([h1 EXCEPT !.input[w].width =
                                     OffsetWidth(h1.elems[s]) + CharSizerPad],
                      "ok")

InlineCharField_resizeInput(h, c, font) ==
    LET w == WidgetOf(c)
        inp == h.input[w]
        s == h.sizer[c]
    IN  IF ~inp.present THEN Done(h, "noop")
        ELSE IF inp.value # ""
        THEN Done([h EXCEPT !.input[w].width =
                                ScrollWidth(inp.value, font) + CharValuePad],
                  "ok")
        ELSE IF s = NoSizer THEN Done(h, "error")
        ELSE LET h1 == [h EXCEPT !.elems[s].text = inp.placeholder,
                                 !.elems[s].font = font]
             IN  Done([h1 EXCEPT !.input[w].width =
                                     OffsetWidth(h1.elems[s]) + CharSizerPad],
                      "ok")

InlineCharField_onMounted(h, c, font) ==
    InlineCharField_resizeInput(InlineCharField_createSizer(h, c), c, font)

InlineCharField_onInputType(h, c, font) ==
    InlineCharField_resizeInput(h, c, font)

InlineCharField_willUnmount(h, c) ==
    IF h.sizer[c] # NoSizer
    THEN [h EXCEPT !.elems[h.sizer[c]].attached = FALSE,
                   !.sizer[c] = NoSizer]
    ELSE h

\* ----------------------------------------- AutoMany2XAutocomplete methods
\* faulty variant: no test that the instance already holds a sizer
AutoMany2XAutocomplete_createSizer_noGuard(h, c) ==
    [h EXCEPT !.elems = Append(@, NewSizer(c)),
              !.sizer[c] = Len(h.elems) + 1]

AutoMany2XAutocomplete_createSizer(h, c) ==
    IF h.sizer[c] = NoSizer
    THEN [h EXCEPT !.elems = Append(@, NewSizer(c)),
                   !.sizer[c] = Len(h.elems) + 1]
    ELSE h

\* faulty variant: the padding of the char widget's sizer branch
AutoMany2XAutocomplete_resizeInput_charPad(h, c, font, defaultValue) ==
    LET w == WidgetOf(c)
        inp == h.input[w]
        s == h.sizer[c]
        value == IF defaultValue # "" THEN defaultValue
                 ELSE IF inp.value # "" THEN inp.value
                 ELSE inp.placeholder
    IN  IF ~inp.present THEN Done(h, "noop")
        ELSE IF s = NoSizer THEN Done(h, "error")
        ELSE LET h1 == [h EXCEPT !.elems[s].text = value,
                                 !.elems[s].font = font]
             IN  Done([h1 EXCEPT !.input[w].width =
                                     OffsetWidth(h1.elems[s]) + CharSizerPad],
                      "ok")

\* faulty variant: no early return; with no <input> the sizer is written
\* before input.value throws
AutoMany2XAutocomplete_resizeInput_noEarlyReturn(h, c, font, defaultValue) ==
    LET w == WidgetOf(c)
        inp == h.input[w]
        s == h.sizer[c]
        value == IF defaultValue # "" THEN defaultValue
                 ELSE IF inp.value # "" THEN inp.value
                 ELSE inp.placeholder
    IN  IF s = NoSizer THEN Done(h, "error")
        ELSE LET h1 == [h EXCEPT !.elems[s].text = value,
                                 !.elems[s].font = font]
             IN  IF ~inp.present THEN Done(h1, "error")
                 ELSE Done([h1 EXCEPT !.input[w].width =
                                     OffsetWidth(h1.elems[s]) + AutoSizerPad],
                           "ok")

\* defaultValue "" stands for the default null (and for a falsy argument)
AutoMany2XAutocomplete_resizeInput(h, c, font, defaultValue) ==
    LET w == WidgetOf(c)
        inp == h.input[w]
        s == h.sizer[c]
        value == IF defaultValue # "" THEN defaultValue
                 ELSE IF inp.value # "" THEN inp.value
                 ELSE inp.placeholder
    IN  IF ~inp.present THEN Done(h, "noop")
        ELSE IF s = NoSizer THEN Done(h, "error")
        ELSE LET h1 == [h EXCEPT !.elems[s].text = value,
                                 !.elems[s].font = font]
             IN  Done([h1 EXCEPT !.input[w].width =
                                     OffsetWidth(h1.elems[s]) + AutoSizerPad],
                      "ok")

AutoMany2XAutocomplete_onMounted(h, c, font) ==
    AutoMany2XAutocomplete_resizeInput(
        AutoMany2XAutocomplete_createSizer(h, c), c, font, "")

\* super.onChange(...) updates the record, not the DOM modelled here
AutoMany2XAutocomplete_onChange(h, c, font) ==
    AutoMany2XAutocomplete_resizeInput(h, c, font, "")

\* super.onSelect(...) updates the record, not the DOM modelled here
AutoMany2XAutocomplete_onSelect(h, c, font, displayName) ==
    AutoMany2XAutocomplete_resizeInput(h, c, font, displayName)

\* -------------------------------------------- InlineMany2OneField methods
\* the body of the onMounted callback is commented out
InlineMany2OneField_onMounted(h, c, font) == Done(h, "ok")

\* defined by the class, called by none of its methods
InlineMany2OneField_createSizer(h, c) ==
    IF h.sizer[c] = NoSizer
    THEN [h EXCEPT !.elems = Append(@, NewSizer(c)),
                   !.sizer[c] = Len(h.elems) + 1]
    ELSE h

\* el: whether this.input.el, the field's own ref, resolves to the <input>
InlineMany2OneField_resizeInput(h, c, font, el) ==
    LET w == WidgetOf(c)
        inp == h.input[w]
        s == h.sizer[c]
    IN  IF ~el THEN Done(h, "noop")
        ELSE IF inp.value # ""
        THEN Done([h EXCEPT !.input[w].width =
                                ScrollWidth(inp.value, font) + CharValuePad],
                  "ok")
        ELSE IF s = NoSizer THEN Done(h, "error")
        ELSE LET h1 == [h EXCEPT !.elems[s].text = inp.placeholder,
                                 !.elems[s].font = font]
             IN  Done([h1 EXCEPT !.input[w].width =
                                     OffsetWidth(h1.elems[s]) + CharSizerPad],
                      "ok")

InlineMany2OneField_onInputTypeMany2One(h, c, font, el) ==
    InlineMany2OneField_resizeInput(h, c, font, el)

InlineMany2OneField_willUnmount(h, c) ==
    IF h.sizer[c] # NoSizer
    THEN [h EXCEPT !.elems[h.sizer[c]].attached = FALSE,
                   !.sizer[c] = NoSizer]
    ELSE h

\* ------------------------------------------------- PageListController
Views == 1..NViews
NoReturn == <<"none">>

\* what actionService.doAction(action) returns for the n-th request
DoActionResult(action, n) == <<"doAction", action, n>>

\* faulty variant: the stock creation runs (super.onClickCreate()) and the
\* wizard is not asked for
PageListController_onClickCreate_super(reqs, v) ==
    [requests |-> reqs, ret |-> <<"undefined">>, created |-> 1]

\* the effect of an onClickCreate: the requests made of the action service,
\* the value returned, the records created in the list
PageListController_onClickCreate(reqs, v) ==
    [requests |-> Append(reqs, [view |-> v, action |-> FeesAction]),
     ret |-> DoActionResult(FeesAction, Len(reqs) + 1),
     created |-> 0]

\* onClickCreate of the listView.Controller that PageListController extends:
\* adds a record to the list, asks nothing of the action service
ListController_onClickCreate(reqs, v) ==
    [requests |-> reqs, ret |-> <<"undefined">>, created |-> 1]

\* PageListView: listView with Controller replaced, registered in "views"
\* under fees_wizard_list
ControllerOf(key) == IF key = FeesViewKey THEN "PageListController" ELSE "ListController"

\* the list views on screen: the odd ones are fees_wizard_list views
ViewKey(v) == IF v % 2 = 1 THEN FeesViewKey ELSE StockViewKey

\* ------------------------------------------------------------- Init
NoInput == [present |-> FALSE, value |-> "", placeholder |-> "", width |-> 0]

Init ==
    /\ runtime \in {"hooks", "methods"}
    /\ status = [w \in Widgets |-> "new"]
    /\ sizer = [c \in Comps |-> NoSizer]
    /\ elems = <<>>
    /\ input = [w \in Widgets |-> NoInput]
    /\ placeholder \in Placeholders
    /\ themeFont \in InputFonts
    /\ ev = Event("init", <<"none", 0>>, "none", "")
    /\ requests = <<>>
    /\ stockCreates = [v \in Views |-> 0]
    /\ clicks = [v \in Views |-> 0]
    /\ returned = [v \in Views |-> NoReturn]

\* -------------------------------------------------- the host's events
\* what a handler leaves behind: the heap it wrote and how it ended
Handled(op, c, r, arg) ==
    /\ sizer' = r.h.sizer
    /\ elems' = r.h.elems
    /\ input' = r.h.input
    /\ ev' = Event(op, c, r.out, arg)

\* the host renders the widget's template (with or without an <input>, in
\* readonly mode there is none) and then runs the mounted callbacks
NewInput(value) ==
    [present |-> TRUE, value |-> value, placeholder |-> placeholder, width |-> 0]

Rendered(w, present, value) ==
    [Heap EXCEPT !.input[w] = IF present THEN NewInput(value) ELSE NoInput]

MountChar(c) ==
    /\ status[c] # "mounted"
    /\ sizer[c] # NoSizer \/ Len(elems) < MaxElems
    /\ \E present \in BOOLEAN, value \in Values :
         Handled("mount", c,
                 InlineCharField_onMounted(Rendered(c, present, value), c, themeFont),
                 "")
    /\ status' = [status EXCEPT ![c] = "mounted"]
    /\ UNCHANGED <<runtime, placeholder, themeFont, listVars>>

\* an input event: the user's edit sets the value, then the handler runs
InputChar(c) ==
    /\ status[c] = "mounted"
    /\ input[c].present
    /\ \E value \in Values :
         Handled("onInputType", c,
                 InlineCharField_onInputType(
                     [Heap EXCEPT !.input[c].value = value], c, themeFont),
                 "")
    /\ UNCHANGED <<runtime, status, placeholder, themeFont, listVars>>

\* the unmount: the methods runtime calls willUnmount(), the hooks runtime
\* the callbacks given to onWillUnmount (the widgets register none); then
\* the widget's DOM is removed
Removed(h, w) == [h EXCEPT !.input[w] = NoInput]

UnmountChar(c) ==
    /\ status[c] = "mounted"
    /\ Handled("unmount", c,
               Done(Removed(IF runtime = "methods"
                            THEN InlineCharField_willUnmount(Heap, c)
                            ELSE Heap, c), "ok"),
               "")
    /\ status' = [status EXCEPT ![c] = "unmounted"]
    /\ UNCHANGED <<runtime, placeholder, themeFont, listVars>>

\* the host re-renders a mounted widget on a switch between readonly (no
\* <input>) and edit (a new <input>); no handler of the widget runs
Render(w) ==
    /\ status[w] = "mounted"
    /\ \E value \in Values :
         input' = [input EXCEPT ![w] =
                     IF input[w].present THEN NoInput ELSE NewInput(value)]
    /\ ev' = Event("render", w, "none", "")
    /\ UNCHANGED <<runtime, status, sizer, elems, placeholder, themeFont, listVars>>

\* the host theme changes the font of the inputs
ThemeChange ==
    /\ \E f \in InputFonts \ {themeFont} : themeFont' = f
    /\ ev' = Event("theme", <<"none", 0>>, "none", "")
    /\ UNCHANGED <<runtime, status, sizer, elems, input, placeholder, listVars>>

MountMany(w) ==
    /\ status[w] # "mounted"
    /\ sizer[AutoOf(w)] # NoSizer \/ Len(elems) < MaxElems
    /\ \E present \in BOOLEAN, value \in Values :
         LET child == AutoMany2XAutocomplete_onMounted(
                          Rendered(w, present, value), AutoOf(w), themeFont)
             parent == InlineMany2OneField_onMounted(child.h, FieldOf(w), themeFont)
         IN  Handled("mount", AutoOf(w), Done(parent.h, child.out), "")
    /\ status' = [status EXCEPT ![w] = "mounted"]
    /\ UNCHANGED <<runtime, placeholder, themeFont, listVars>>

ChangeMany(w) ==
    /\ status[w] = "mounted"
    /\ input[w].present
    /\ \E value \in Values :
         Handled("onChange", AutoOf(w),
                 AutoMany2XAutocomplete_onChange(
                     [Heap EXCEPT !.input[w].value = value], AutoOf(w), themeFont),
                 "")
    /\ UNCHANGED <<runtime, status, placeholder, themeFont, listVars>>

SelectMany(w) ==
    /\ status[w] = "mounted"
    /\ \E name \in DisplayNames :
         Handled("onSelect", AutoOf(w),
                 AutoMany2XAutocomplete_onSelect(Heap, AutoOf(w), themeFont, name),
                 name)
    /\ UNCHANGED <<runtime, status, placeholder, themeFont, listVars>>

\* an input event of the widget's <input>; the field looks the input up
\* through its own ref, which the template may or may not bind to it
InputMany(w) ==
    /\ status[w] = "mounted"
    /\ input[w].present
    /\ \E value \in Values, el \in BOOLEAN :
         Handled("onInputTypeMany2One", FieldOf(w),
                 InlineMany2OneField_onInputTypeMany2One(
                     [Heap EXCEPT !.input[w].value = value], FieldOf(w), themeFont, el),
                 IF el THEN "" ELSE "null")
    /\ UNCHANGED <<runtime, status, placeholder, themeFont, listVars>>

UnmountMany(w) ==
    /\ status[w] = "mounted"
    /\ Handled("unmount", FieldOf(w),
               Done(Removed(IF runtime = "methods"
                            THEN InlineMany2OneField_willUnmount(Heap, FieldOf(w))
                            ELSE Heap, w), "ok"),
               "")
    /\ status' = [status EXCEPT ![w] = "unmounted"]
    /\ UNCHANGED <<runtime, placeholder, themeFont, listVars>>

\* a click on the create button of list view v
ClickCreate(v) ==
    /\ clicks[v] < MaxClicks
    /\ LET r == IF ControllerOf(ViewKey(v)) = "PageListController"
                THEN PageListController_onClickCreate(requests, v)
                ELSE ListController_onClickCreate(requests, v)
       IN  /\ requests' = r.requests
           /\ returned' = [returned EXCEPT ![v] = r.ret]
           /\ stockCreates' = [stockCreates EXCEPT ![v] = @ + r.created]
    /\ clicks' = [clicks EXCEPT ![v] = @ + 1]
    /\ ev' = Event("onClickCreate", <<"view", v>>, "ok", "")
    /\ UNCHANGED widgetVars

Next ==
    \/ \E c \in CharComps : MountChar(c)
    \/ \E c \in CharComps : InputChar(c)
    \/ \E c \in CharComps : UnmountChar(c)
    \/ \E w \in ManyWidgets : MountMany(w)
    \/ \E w \in ManyWidgets : ChangeMany(w)
    \/ \E w \in ManyWidgets : SelectMany(w)
    \/ \E w \in ManyWidgets : InputMany(w)
    \/ \E w \in ManyWidgets : UnmountMany(w)
    \/ \E w \in Widgets : Render(w)
    \/ ThemeChange

NextList == \E v \in Views : ClickCreate(v)

Spec == Init /\ [][Next]_vars
\* the list views alone, with no field widget on screen
InitList == Init /\ runtime = "hooks" /\ placeholder = "" /\ themeFont = "f1"
SpecList == InitList /\ [][NextList]_vars

\* ============================================================ the claims
\* the sizer elements created by component c that are in document.body
Attached(c) == {i \in DOMAIN elems : elems[i].creator = c /\ elems[i].attached}

\* the events whose handler calls _resizeInput
ResizeOps == {"mount", "onInputType", "onChange", "onSelect", "onInputTypeMany2One"}
\* the event handled last was a call of _resizeInput by component c
Resized(c) == ev.op \in ResizeOps /\ ev.comp = c

\* C1: whenever an InlineCharField is unmounted, no sizer element created by
\* it remains attached to document.body.
C1_CharSizerRemovedOnUnmount ==
    \A c \in CharComps : status[c] = "unmounted" => Attached(c) = {}

\* C2: whenever the inline many2one widget is unmounted, no sizer element
\* created by its AutoMany2XAutocomplete or by its InlineMany2OneField
\* remains attached to the document.
C2_ManySizerReleasedOnUnmount ==
    \A w \in ManyWidgets :
        status[w] = "unmounted" =>
            Attached(AutoOf(w)) \cup Attached(FieldOf(w)) = {}

\* C4: a call of _resizeInput returns early or completes normally; it never
\* dereferences an absent sizer (no handler ends in a TypeError).
C4_ResizeNeverThrows == ev.op \in ResizeOps => ev.out \in {"ok", "noop"}

\* the padding constants of the three _resizeInput methods
Pads == {CharValuePad, CharSizerPad, AutoSizerPad}

\* the text a resize by the autocomplete measures: the display name passed
\* by onSelect, else the input's value, else its placeholder
AutoText(c) ==
    LET inp == input[WidgetOf(c)]
    IN  IF ev.op = "onSelect" /\ ev.arg # "" THEN ev.arg
        ELSE IF inp.value # "" THEN inp.value ELSE inp.placeholder

\* C3 as stated: after a completed _resizeInput of the char widget or of
\* the autocomplete, the sizer holds the input's string S and the input's
\* width is the sizer's rendered width plus a padding constant.
C3_WidthIsSizerOfValuePlusPad ==
    \A c \in CharComps \cup AutoComps :
        (Resized(c) /\ ev.out = "ok") =>
            LET inp == input[WidgetOf(c)]
                s == sizer[c]
            IN  /\ s # NoSizer
                /\ elems[s].text = inp.value
                /\ \E pad \in Pads : inp.width = OffsetWidth(elems[s]) + pad

\* C3 (amended): after a completed _resizeInput, the autocomplete's sizer
\* holds the measured text (display name, else value, else placeholder) and
\* the input is the sizer's width plus 20; the char widget with an empty
\* value holds the placeholder in its sizer and the input is the sizer's
\* width plus 10; the char widget with a value S is sized to the input's
\* own scrollWidth for S plus 2, and its sizer is not used.
C3_WidthIsMeasurePlusPad ==
    \A c \in CharComps \cup AutoComps :
        (Resized(c) /\ ev.out = "ok") =>
            LET inp == input[WidgetOf(c)]
                s == sizer[c]
            IN  IF c \in AutoComps
                THEN /\ s # NoSizer
                     /\ elems[s].text = AutoText(c)
                     /\ inp.width = OffsetWidth(elems[s]) + AutoSizerPad
                ELSE IF inp.value = ""
                THEN /\ s # NoSizer
                     /\ elems[s].text = inp.placeholder
                     /\ inp.width = OffsetWidth(elems[s]) + CharSizerPad
                ELSE inp.width = ScrollWidth(inp.value, themeFont) + CharValuePad

\* a completed resize of the autocomplete that measured a non-empty value,
\* and one of the char widget that measured its placeholder
C3_Witness ==
    \E c \in AutoComps :
        /\ Resized(c) /\ ev.op = "onChange" /\ ev.out = "ok"
        /\ input[WidgetOf(c)].value = "ab"
        /\ input[WidgetOf(c)].width = TextWidth("ab", themeFont) + AutoSizerPad
        /\ \E d \in CharComps : input[WidgetOf(d)].present

\* C5: a handler that calls _resizeInput while the input it looks up is
\* absent ends silently (no error) and leaves every sizer's text and font,
\* the sizer references and every input's width as they were before the
\* call (on mount: as _createSizer, which runs before it, left them).
InputAbsentAtCall ==
    IF ev.op = "onInputTypeMany2One" THEN ev.arg = "null"
    ELSE ~input[WidgetOf(ev.comp)].present

C5_AbsentInputIsNoop ==
    [][ (ev'.op \in ResizeOps /\ InputAbsentAtCall') =>
          /\ ev'.out = "noop"
          /\ \A w \in Widgets : input'[w].width = input[w].width
          /\ \A i \in DOMAIN elems : elems'[i] = elems[i]
          /\ \A c \in Comps :
                \/ sizer'[c] = sizer[c]
                \/ /\ ev'.op = "mount" /\ ev'.comp = c /\ sizer[c] = NoSizer
                   /\ sizer'[c] = Len(elems) + 1
          /\ \A i \in DOMAIN elems' \ DOMAIN elems :
                elems'[i] = NewSizer(ev'.comp) ]_vars

\* onSelect reached an autocomplete that holds a sizer and has no <input>
C5_Witness ==
    /\ ev.op = "onSelect" /\ ev.out = "noop"
    /\ sizer[ev.comp] # NoSizer
    /\ ~input[WidgetOf(ev.comp)].present

\* the text current at the event handled last: the selected option's
\* display name, else the input's value, else (empty value) its placeholder
CurrentText(c) ==
    LET inp == input[WidgetOf(c)]
    IN  IF ev.op = "onSelect" THEN ev.arg
        ELSE IF inp.value # "" THEN inp.value ELSE inp.placeholder

\* C6: after every mount, content-change and selection event of a widget
\* whose input is there, the resize has completed and the input's width is
\* the one computed from the text current at that event.
C6_EveryEventResizes ==
    \A c \in Comps :
        (Resized(c) /\ input[WidgetOf(c)].present /\ ev.arg # "null") =>
            /\ ev.out = "ok"
            /\ \E pad \in Pads :
                  input[WidgetOf(c)].width =
                      TextWidth(CurrentText(c), themeFont) + pad

\* C7: every component instance has at most one sizer element in the
\* document and it is the one this._sizer refers to; _createSizer on an
\* instance that holds a sizer creates nothing; a sizer element is modified
\* or removed only by handlers of the instance that created it, and removed
\* only by that instance's unmount.
C7_StateOk ==
    \A c \in Comps :
        /\ Cardinality(Attached(c)) <= 1
        /\ sizer[c] # NoSizer => Attached(c) = {sizer[c]}

C7_StepOk ==
    /\ \A i \in DOMAIN elems :
          elems'[i] # elems[i] =>
              /\ elems[i].creator = ev'.comp
              /\ (elems[i].attached /\ ~elems'[i].attached) => ev'.op = "unmount"
    /\ \A c \in Comps :
          (sizer[c] # NoSizer /\ sizer'[c] # NoSizer) => sizer'[c] = sizer[c]
    /\ \A c \in Comps :
          (sizer[c] # NoSizer /\ ev'.op = "mount" /\ ev'.comp = c) =>
              Len(elems') = Len(elems)

C7_OneSizerPerInstance == []C7_StateOk /\ [][C7_StepOk]_vars

\* the autocomplete was mounted again while it held the sizer of its first
\* mount (a younger sizer exists), and _createSizer created nothing
C7_Witness ==
    \E c \in AutoComps :
        /\ Resized(c) /\ ev.op = "mount"
        /\ sizer[c] # NoSizer /\ sizer[c] < Len(elems)
        /\ \E d \in CharComps : sizer[d] # NoSizer

\* C8: at a resize of the input's own value, an empty value makes the
\* widget measure the placeholder and size the input to fit it; a non-empty
\* value is measured itself and the placeholder does not enter the width.
C8_EmptyValueFallsBackToPlaceholder ==
    \A c \in Comps :
        (Resized(c) /\ ev.op # "onSelect" /\ ev.arg # "null"
            /\ input[WidgetOf(c)].present) =>
            LET inp == input[WidgetOf(c)]
            IN  /\ ev.out = "ok"
                /\ \E pad \in Pads :
                      inp.width = TextWidth(IF inp.value = "" THEN inp.placeholder
                                            ELSE inp.value, themeFont) + pad

\* C9 as stated: every completed resize (of the char widget or of the
\* autocomplete) has re-read the sizer's font from the input's style.
C9_SizerFontRereadOnEveryResize ==
    \A c \in CharComps \cup AutoComps :
        (Resized(c) /\ ev.out = "ok") =>
            sizer[c] # NoSizer /\ elems[sizer[c]].font = themeFont

\* C9 (amended): every completed resize that measures with the sizer (the
\* autocomplete's always, the char widget's when the value is empty) has
\* re-read the sizer's font from the input's current style, and the width is
\* the sizer's text measured in that font; a char widget with a non-empty
\* value measures the input itself, in the input's current font, and leaves
\* the sizer's font as it was.
UsesSizer(c) == c \in AutoComps \/ input[WidgetOf(c)].value = ""

C9_MeasuredInCurrentFont ==
    \A c \in CharComps \cup AutoComps :
        (Resized(c) /\ ev.out = "ok") =>
            LET inp == input[WidgetOf(c)]
                s == sizer[c]
            IN  IF UsesSizer(c)
                THEN /\ s # NoSizer
                     /\ elems[s].font = themeFont
                     /\ inp.width - TextWidth(elems[s].text, themeFont)
                            = IF c \in AutoComps THEN AutoSizerPad ELSE CharSizerPad
                ELSE inp.width = TextWidth(inp.value, themeFont) + CharValuePad

\* a resize of the autocomplete under font f2 while another sizer still has
\* font f1 from a resize before the theme changed
C9_Witness ==
    \E c \in AutoComps :
        /\ Resized(c) /\ ev.op = "onChange" /\ ev.out = "ok"
        /\ themeFont = "f2" /\ elems[sizer[c]].font = "f2"
        /\ elems[sizer[c]].text # ""
        /\ \E i \in DOMAIN elems : elems[i].font = "f1"

\* C10: in a fees_wizard_list view every click on the create button asks
\* the action service for exactly the fees wizard action, once, returns
\* that request's result, and creates no record the stock way.
RequestsOf(v) == {i \in DOMAIN requests : requests[i].view = v}

C10_CreateOpensFeesWizard ==
    \A v \in Views :
        ViewKey(v) = FeesViewKey =>
            /\ stockCreates[v] = 0
            /\ Cardinality(RequestsOf(v)) = clicks[v]
            /\ \A i \in RequestsOf(v) : requests[i].action = FeesAction
            /\ clicks[v] > 0 =>
                  \E i \in RequestsOf(v) :
                      /\ \A j \in RequestsOf(v) : j <= i
                      /\ returned[v] = DoActionResult(FeesAction, i)

\* two clicks in a fees_wizard_list view, the last one handled last, and
\* one in a stock list view
C10_Witness ==
    /\ ev.op = "onClickCreate" /\ ViewKey(ev.comp[2]) = FeesViewKey
    /\ clicks[ev.comp[2]] >= 2
    /\ \E v \in Views : ViewKey(v) = StockViewKey /\ stockCreates[v] >= 1

====
